---- MODULE Spec2Model ----
(***************************************************************************)
(* OpenClawUE: the Python package openclawue (package module __init__.py   *)
(* and services.py) as a state machine.  One action per callable of the    *)
(* package; Python values are modelled as follows: a dict is a record with *)
(* exactly the dict's keys, a list is a sequence, a str is a string, an    *)
(* object is a reference into the heap (its class and its serial number    *)
(* among the objects of that class), and a call ends either by returning   *)
(* a value or by raising an exception to its caller.                       *)
(***************************************************************************)
EXTENDS Naturals, Sequences, FiniteSets, TLC

VARIABLES
    _UNREAL_AVAILABLE,          \* openclawue._UNREAL_AVAILABLE
    services_UNREAL_AVAILABLE,  \* openclawue.services._UNREAL_AVAILABLE
    instance_slots,             \* the nine _xxx_service globals of the package
    heap,                       \* per class, the service objects constructed so far
    result,                     \* the caller's saved create_blueprint envelope
    connect_calls,              \* the objects connect_to_openclaw was called on
    call                        \* the last call made: op, self, args, outcome
                                \* (and, for execute_python, the code blocks
                                \* the call handed to exec())

vars == <<_UNREAL_AVAILABLE, services_UNREAL_AVAILABLE, instance_slots, heap,
          result, connect_calls, call>>

\* Upper bound on the number of service objects alive in one run.
MaxObjects == 2

----------------------------------------------------------------------------
\* Record fields.  TLC keeps the fields of a record in the order in which
\* their names first occur in the module, and sorts a record built in another
\* order when it is first compared.  The keys of the package's dicts, the
\* attributes of its objects and the fields of the call records are named
\* here once, in an order that agrees with every record constructor below, so
\* that each record is built in its normal form and no worker ever has to
\* reorder a record another worker is reading.
FieldOrder ==
    [type |-> TRUE, cls |-> TRUE, id |-> TRUE, raised |-> TRUE,
     value |-> TRUE, exc |-> TRUE, str |-> TRUE,
     _unreal_available |-> TRUE, _connected |-> TRUE, fget |-> TRUE,
     service_class |-> TRUE, instance_attr |-> TRUE, op |-> TRUE,
     self |-> TRUE, args |-> TRUE, out |-> TRUE, items |-> TRUE,
     blueprint_path |-> TRUE, parent_material |-> TRUE,
     widget_path |-> TRUE, search_term |-> TRUE, asset_type |-> TRUE,
     status |-> TRUE, module |-> TRUE, classes |-> TRUE,
     functions |-> TRUE, constants |-> TRUE, module_name |-> TRUE,
     class |-> TRUE, methods |-> TRUE, properties |-> TRUE,
     inheritance |-> TRUE, class_name |-> TRUE, stdout |-> TRUE,
     stderr |-> TRUE, success |-> TRUE, error |-> TRUE,
     error_type |-> TRUE, asset_path |-> TRUE, variable_name |-> TRUE,
     variable_type |-> TRUE, component_name |-> TRUE,
     component_type |-> TRUE, name |-> TRUE, parent_class |-> TRUE,
     path |-> TRUE, var_type |-> TRUE, default_value |-> TRUE,
     parent |-> TRUE, actor_class |-> TRUE, location |-> TRUE,
     rotation |-> TRUE, actors |-> TRUE, skeleton |-> TRUE,
     template |-> TRUE, value_type |-> TRUE, assets |-> TRUE,
     count |-> TRUE, command |-> TRUE, data |-> TRUE, connected |-> TRUE,
     url |-> TRUE, response |-> TRUE, dashboard_url |-> TRUE,
     message |-> TRUE, method |-> TRUE, executed |-> TRUE, code |-> TRUE]

----------------------------------------------------------------------------
\* Python values and call outcomes

None == [type |-> "NoneType"]

Ref(cls, id) == [type |-> "object", cls |-> cls, id |-> id]

Return(value) == [raised |-> FALSE, value |-> value]

Raise(exc_type, message) ==
    [raised |-> TRUE, exc |-> [type |-> exc_type, str |-> message]]

\* The exception classes that derive from BaseException but not from Exception.
BaseExceptionOnly == {"SystemExit", "KeyboardInterrupt", "GeneratorExit"}

\* `except Exception as e` catches exc exactly when it is an Exception.
IsException(exc) == exc.type \notin BaseExceptionOnly

----------------------------------------------------------------------------
\* services.py: the service classes

DomainClasses ==
    {"BlueprintService", "MaterialService", "WidgetService", "ActorService",
     "AnimationService", "NiagaraService", "InputService", "AssetService"}

ServiceClasses == DomainClasses \cup {"OpenClawService"}

\* The class objects bound in openclawue.services.
ServicesGlobal(name) == [type |-> "class", name |-> name]

\* BaseService.__init__
BaseService_init == [_unreal_available |-> services_UNREAL_AVAILABLE]

\* OpenClawService.__init__: super().__init__() and the connection flag.
OpenClawService_init ==
    [_unreal_available |-> BaseService_init._unreal_available,
     _connected |-> FALSE]

\* service_class(): the outcome of calling the object bound to service_class.
\* A class yields a new object; a property object is not callable.
Construct(service_class) ==
    IF service_class.type = "class"
    THEN Return(IF service_class.name = "OpenClawService"
                THEN [cls |-> service_class.name] @@ OpenClawService_init
                ELSE [cls |-> service_class.name] @@ BaseService_init)
    ELSE Raise("TypeError", "'" \o service_class.type \o "' object is not callable")

\* Variant: the availability check never raises.
_check_unreal_skipped(self) == Return(TRUE)

\* Variant: the availability check raises whatever the flag is.
_check_unreal_always(self) ==
    Raise("RuntimeError", "Unreal Engine Python API not available")

\* BaseService._check_unreal
_check_unreal(self) ==
    IF ~heap[self.cls][self.id]._unreal_available
    THEN Raise("RuntimeError", "Unreal Engine Python API not available")
    ELSE Return(TRUE)

\* Variant: the error envelope without its message field.
_format_error_no_message(error) ==
    [success |-> FALSE, error_type |-> error.type]

\* BaseService._format_error
_format_error(error) ==
    [success |-> FALSE, error |-> error.str, error_type |-> error.type]

\* try: <body> / except Exception as e: return self._format_error(e)
TryFormatError(body) ==
    IF body.raised /\ IsException(body.exc)
    THEN Return(_format_error(body.exc))
    ELSE body

\* self._check_unreal() followed by `return envelope`, inside the try block.
CheckedStub(self, envelope) ==
    LET checked == _check_unreal(self)
    IN  TryFormatError(IF checked.raised THEN checked ELSE Return(envelope))

----------------------------------------------------------------------------
\* __init__.py: the registry

instance_attr(name) ==
    CASE name = "BlueprintService" -> "_blueprint_service"
      [] name = "MaterialService"  -> "_material_service"
      [] name = "WidgetService"    -> "_widget_service"
      [] name = "ActorService"     -> "_actor_service"
      [] name = "AnimationService" -> "_animation_service"
      [] name = "NiagaraService"   -> "_niagara_service"
      [] name = "InputService"     -> "_input_service"
      [] name = "AssetService"     -> "_asset_service"
      [] name = "OpenClawService"  -> "_openclaw_service"

InstanceAttrs == {instance_attr(name) : name \in ServiceClasses}

\* After the package is imported each service name of the package namespace
\* is bound to a property object whose getter is the lambda of that line.
PackageGlobal(name) == [type |-> "property", fget |-> name]

\* Variant: the cache test always takes the constructing branch.
IsNone_always(instance) == TRUE

\* `if instance is None`
IsNone(instance) == instance = None

\* The service objects alive.
Objects == UNION {{Ref(cls, id) : id \in 1..Len(heap[cls])} : cls \in ServiceClasses}

NumObjects == Cardinality(Objects)

\* _get_service(service_class, instance_attr), called as operation op.
GetServiceStep(op, service_class, attr) ==
    LET instance == instance_slots[attr]
        made == Construct(service_class)
        args == [service_class |-> service_class, instance_attr |-> attr]
    IN  /\ IsNone(instance) => NumObjects < MaxObjects
        /\ IF ~IsNone(instance)
           THEN /\ call' = [op |-> op, self |-> None, args |-> args,
                            out |-> Return(instance)]
                /\ UNCHANGED <<heap, instance_slots>>
           ELSE IF made.raised
           THEN /\ call' = [op |-> op, self |-> None, args |-> args,
                            out |-> made]
                /\ UNCHANGED <<heap, instance_slots>>
           ELSE LET new == Ref(made.value.cls, Len(heap[made.value.cls]) + 1)
                IN  /\ heap' = [heap EXCEPT ![new.cls] = Append(@, made.value)]
                    /\ instance_slots' = [instance_slots EXCEPT ![attr] = new]
                    /\ call' = [op |-> op, self |-> None, args |-> args,
                                out |-> Return(new)]
        /\ UNCHANGED <<_UNREAL_AVAILABLE, services_UNREAL_AVAILABLE,
                       connect_calls, result>>

\* A caller's openclawue._get_service(services.X, '_x_service').
_get_service ==
    \E name \in ServiceClasses :
        GetServiceStep("_get_service", ServicesGlobal(name), instance_attr(name))

\* The value a caller holds after `service = openclawue.<name>`.
HeldAttr == call.op = "getattr" /\ ~call.out.raised

\* service.fget(None) on the property just read: the lambda of that line runs,
\* and the service name in its body is looked up in the package namespace.
property_fget ==
    /\ HeldAttr
    /\ call.out.value.type = "property"
    /\ GetServiceStep("fget", PackageGlobal(call.out.value.fget),
                      instance_attr(call.out.value.fget))

----------------------------------------------------------------------------
\* Argument values the callers draw from

AssetNames == {"BP_TestActor", "M_Rock"}
AssetPaths == {"/Game/Blueprints", "/Game/UI"}
ParentClasses == {"Actor", "Pawn"}
VariableNames == {"Health", "Speed"}
VariableTypes == {"Float", "Bool"}
DefaultValues == {"", "100.0"}
ComponentTypes == {"Button", "TextBlock"}
OptionalNames == {"", "Root"}

PyList(items) == [type |-> "list", items |-> items]

Locations == {PyList(<<0, 0, 0>>), PyList(<<100, 0, 50>>)}
Rotations == {None, PyList(<<0, 90, 0>>)}

\* The objects of class cls a caller can hold.
InstancesOf(cls) == {Ref(cls, id) : id \in 1..Len(heap[cls])}

\* A method call on a service object that only reads the object.
MethodCall(op, self, args, out) ==
    /\ call' = [op |-> op, self |-> self, args |-> args, out |-> out]
    /\ UNCHANGED <<_UNREAL_AVAILABLE, services_UNREAL_AVAILABLE, connect_calls,
                   instance_slots, heap>>

----------------------------------------------------------------------------
\* services.py: BlueprintService

\* Variant: the asset path is built with the parent class in it.
create_blueprint_envelope_parent(name, parent_class, path) ==
    [success |-> TRUE,
     asset_path |-> path \o "/" \o parent_class \o "/" \o name,
     message |-> "Blueprint '" \o name \o "' created successfully"]

create_blueprint_envelope(name, parent_class, path) ==
    [success |-> TRUE,
     asset_path |-> path \o "/" \o name,
     message |-> "Blueprint '" \o name \o "' created successfully"]

\* result = service.create_blueprint(name, parent_class, path)
create_blueprint ==
    \E self \in InstancesOf("BlueprintService") :
    \E name \in AssetNames, parent_class \in ParentClasses, path \in AssetPaths :
        LET out == CheckedStub(self,
                       create_blueprint_envelope(name, parent_class, path))
        IN  /\ MethodCall("create_blueprint", self,
                   [name |-> name, parent_class |-> parent_class, path |-> path],
                   out)
            /\ result' = IF out.raised THEN result ELSE out.value

\* The blueprint paths a caller passes on: the asset_path of the saved
\* create_blueprint result when that succeeded, or some other path.
BlueprintPathArgs ==
    {"/Game/Other/BP_Other"}
        \cup (IF result # None /\ result.success THEN {result.asset_path} ELSE {})

add_variable_envelope(blueprint_path, name, var_type, default_value) ==
    [success |-> TRUE,
     variable_name |-> name,
     variable_type |-> var_type,
     message |-> "Variable '" \o name \o "' added to " \o blueprint_path]

add_variable ==
    \E self \in InstancesOf("BlueprintService") :
    \E blueprint_path \in BlueprintPathArgs, name \in VariableNames,
       var_type \in VariableTypes, default_value \in DefaultValues :
        /\ MethodCall("add_variable", self,
               [blueprint_path |-> blueprint_path, name |-> name,
                var_type |-> var_type, default_value |-> default_value],
               CheckedStub(self, add_variable_envelope(blueprint_path, name,
                                                       var_type, default_value)))
        /\ UNCHANGED result

compile_blueprint_envelope(blueprint_path) ==
    [success |-> TRUE,
     message |-> "Blueprint " \o blueprint_path \o " compiled successfully"]

compile_blueprint ==
    \E self \in InstancesOf("BlueprintService") :
    \E blueprint_path \in BlueprintPathArgs :
        /\ MethodCall("compile_blueprint", self,
               [blueprint_path |-> blueprint_path],
               CheckedStub(self, compile_blueprint_envelope(blueprint_path)))
        /\ UNCHANGED result

----------------------------------------------------------------------------
\* services.py: MaterialService

create_material_envelope(name, path) ==
    [success |-> TRUE,
     asset_path |-> path \o "/" \o name,
     message |-> "Material '" \o name \o "' created successfully"]

create_material ==
    \E self \in InstancesOf("MaterialService") :
    \E name \in AssetNames, path \in AssetPaths :
        /\ MethodCall("create_material", self, [name |-> name, path |-> path],
               CheckedStub(self, create_material_envelope(name, path)))
        /\ UNCHANGED result

create_material_instance_envelope(parent_material, name, path) ==
    [success |-> TRUE,
     asset_path |-> path \o "/" \o name,
     message |-> "Material Instance '" \o name \o "' created successfully"]

create_material_instance ==
    \E self \in InstancesOf("MaterialService") :
    \E parent_material \in {"/Game/Materials/M_Base", ""},
       name \in AssetNames, path \in AssetPaths :
        /\ MethodCall("create_material_instance", self,
               [parent_material |-> parent_material, name |-> name, path |-> path],
               CheckedStub(self, create_material_instance_envelope(
                                     parent_material, name, path)))
        /\ UNCHANGED result

----------------------------------------------------------------------------
\* services.py: WidgetService

create_widget_blueprint_envelope(name, path, parent_class) ==
    [success |-> TRUE,
     asset_path |-> path \o "/" \o name,
     message |-> "Widget Blueprint '" \o name \o "' created successfully"]

create_widget_blueprint ==
    \E self \in InstancesOf("WidgetService") :
    \E name \in AssetNames, path \in AssetPaths,
       parent_class \in {"UserWidget", "Actor"} :
        /\ MethodCall("create_widget_blueprint", self,
               [name |-> name, parent_class |-> parent_class, path |-> path],
               CheckedStub(self, create_widget_blueprint_envelope(
                                     name, path, parent_class)))
        /\ UNCHANGED result

add_widget_component_envelope(widget_path, component_type, name, parent) ==
    [success |-> TRUE,
     component_name |-> name,
     component_type |-> component_type,
     message |-> "Component '" \o name \o "' added to " \o widget_path]

add_widget_component ==
    \E self \in InstancesOf("WidgetService") :
    \E widget_path \in {"/Game/UI/W_Main", ""},
       component_type \in ComponentTypes, name \in VariableNames,
       parent \in OptionalNames :
        /\ MethodCall("add_widget_component", self,
               [widget_path |-> widget_path, component_type |-> component_type,
                name |-> name, parent |-> parent],
               CheckedStub(self, add_widget_component_envelope(
                                     widget_path, component_type, name, parent)))
        /\ UNCHANGED result

----------------------------------------------------------------------------
\* services.py: ActorService

spawn_actor_envelope(actor_class, location, rotation) ==
    [success |-> TRUE,
     actor_class |-> actor_class,
     location |-> location,
     rotation |-> IF rotation = None THEN PyList(<<0, 0, 0>>) ELSE rotation,
     message |-> "Actor of class '" \o actor_class \o "' spawned successfully"]

spawn_actor ==
    \E self \in InstancesOf("ActorService") :
    \E actor_class \in ParentClasses, location \in Locations,
       rotation \in Rotations :
        /\ MethodCall("spawn_actor", self,
               [actor_class |-> actor_class, location |-> location,
                rotation |-> rotation],
               CheckedStub(self, spawn_actor_envelope(actor_class, location,
                                                      rotation)))
        /\ UNCHANGED result

get_all_actors_envelope ==
    [success |-> TRUE,
     actors |-> PyList(<<>>),
     count |-> 0,
     message |-> "No actors in level (stub mode)"]

get_all_actors ==
    \E self \in InstancesOf("ActorService") :
        /\ MethodCall("get_all_actors", self, <<>>,
               CheckedStub(self, get_all_actors_envelope))
        /\ UNCHANGED result

----------------------------------------------------------------------------
\* services.py: AnimationService, NiagaraService, InputService, AssetService

create_animation_sequence_envelope(name, path, skeleton) ==
    [success |-> TRUE,
     asset_path |-> path \o "/" \o name,
     message |-> "Animation Sequence '" \o name \o "' created successfully"]

create_animation_sequence ==
    \E self \in InstancesOf("AnimationService") :
    \E name \in AssetNames, path \in AssetPaths,
       skeleton \in {"", "/Game/Characters/SK_Mannequin"} :
        /\ MethodCall("create_animation_sequence", self,
               [name |-> name, path |-> path, skeleton |-> skeleton],
               CheckedStub(self, create_animation_sequence_envelope(
                                     name, path, skeleton)))
        /\ UNCHANGED result

create_niagara_system_envelope(name, path, template) ==
    [success |-> TRUE,
     asset_path |-> path \o "/" \o name,
     message |-> "Niagara System '" \o name \o "' created successfully"]

create_niagara_system ==
    \E self \in InstancesOf("NiagaraService") :
    \E name \in AssetNames, path \in AssetPaths,
       template \in {"minimal", "fountain"} :
        /\ MethodCall("create_niagara_system", self,
               [name |-> name, path |-> path, template |-> template],
               CheckedStub(self, create_niagara_system_envelope(
                                     name, path, template)))
        /\ UNCHANGED result

create_input_action_envelope(name, path, value_type) ==
    [success |-> TRUE,
     asset_path |-> path \o "/" \o name,
     message |-> "Input Action '" \o name \o "' created successfully"]

create_input_action ==
    \E self \in InstancesOf("InputService") :
    \E name \in AssetNames, path \in AssetPaths,
       value_type \in {"boolean", "axis2d"} :
        /\ MethodCall("create_input_action", self,
               [name |-> name, path |-> path, value_type |-> value_type],
               CheckedStub(self, create_input_action_envelope(
                                     name, path, value_type)))
        /\ UNCHANGED result

search_assets_envelope ==
    [success |-> TRUE,
     assets |-> PyList(<<>>),
     count |-> 0,
     message |-> "No assets found (stub mode)"]

search_assets ==
    \E self \in InstancesOf("AssetService") :
    \E search_term \in {"", "Rock"}, asset_type \in {"", "Material"} :
        /\ MethodCall("search_assets", self,
               [search_term |-> search_term, asset_type |-> asset_type],
               CheckedStub(self, search_assets_envelope))
        /\ UNCHANGED result

----------------------------------------------------------------------------
\* services.py: OpenClawService

GatewayUrls == {"ws://127.0.0.1:18789", "ws://gateway:9000"}

Commands ==
    {[command |-> "test", data |-> [message |-> "Hello from OpenClawUE"]],
     [command |-> "ping"]}

\* Variant: connect leaves the flag as it was.
MarkConnected_dropped(object) == object

\* Variant: connect flips the flag.
MarkConnected_toggle(object) == [object EXCEPT !._connected = ~@]

\* `self._connected = True`
MarkConnected(object) == [object EXCEPT !._connected = TRUE]

\* Variant: the envelope reports the default gateway instead of the url given.
connect_to_openclaw_envelope_default(url) ==
    [success |-> TRUE,
     connected |-> TRUE,
     url |-> "ws://127.0.0.1:18789",
     message |-> "Connected to OpenClaw Gateway at " \o url]

connect_to_openclaw_envelope(url) ==
    [success |-> TRUE,
     connected |-> TRUE,
     url |-> url,
     message |-> "Connected to OpenClaw Gateway at " \o url]

connect_to_openclaw ==
    \E self \in InstancesOf("OpenClawService") :
    \E url \in GatewayUrls :
        /\ heap' = [heap EXCEPT ![self.cls][self.id] = MarkConnected(@)]
        /\ call' = [op |-> "connect_to_openclaw", self |-> self,
                    args |-> [url |-> url],
                    out |-> TryFormatError(
                                Return(connect_to_openclaw_envelope(url)))]
        /\ connect_calls' = connect_calls \cup {self}
        /\ UNCHANGED <<_UNREAL_AVAILABLE, services_UNREAL_AVAILABLE,
                       instance_slots, result>>

\* `if not self._connected`
NotConnected(self) == ~heap[self.cls][self.id]._connected

send_to_openclaw_envelope(self, command) ==
    IF NotConnected(self)
    THEN [success |-> FALSE, error |-> "Not connected to OpenClaw"]
    ELSE [success |-> TRUE,
          command |-> command,
          response |-> [status |-> "received",
                        message |-> "Command processed (stub)"]]

send_to_openclaw ==
    \E self \in InstancesOf("OpenClawService") :
    \E command \in Commands :
        /\ MethodCall("send_to_openclaw", self, [command |-> command],
               TryFormatError(Return(send_to_openclaw_envelope(self, command))))
        /\ UNCHANGED result

create_dashboard_envelope ==
    [success |-> TRUE,
     dashboard_url |-> "http://127.0.0.1:3000/openclawue",
     message |-> "Dashboard created successfully (stub)"]

create_dashboard ==
    \E self \in InstancesOf("OpenClawService") :
        /\ MethodCall("create_dashboard", self, <<>>,
               TryFormatError(Return(create_dashboard_envelope)))
        /\ UNCHANGED result

----------------------------------------------------------------------------
\* __init__.py: reading a service name of the package, as the example does

\* The operations each service class defines.
Methods(name) ==
    CASE name = "BlueprintService" ->
             {"create_blueprint", "add_variable", "compile_blueprint"}
      [] name = "MaterialService" ->
             {"create_material", "create_material_instance"}
      [] name = "WidgetService" ->
             {"create_widget_blueprint", "add_widget_component"}
      [] name = "ActorService" -> {"spawn_actor", "get_all_actors"}
      [] name = "AnimationService" -> {"create_animation_sequence"}
      [] name = "NiagaraService" -> {"create_niagara_system"}
      [] name = "InputService" -> {"create_input_action"}
      [] name = "AssetService" -> {"search_assets"}
      [] name = "OpenClawService" ->
             {"connect_to_openclaw", "send_to_openclaw", "create_dashboard"}

PropertyAttrs == {"fget", "fset", "fdel", "getter", "setter", "deleter"}

\* value.attr for the value a package name is bound to.
GetAttr(value, attr) ==
    IF value.type = "property"
    THEN IF attr \in PropertyAttrs
         THEN Return([type |-> "builtin", name |-> attr])
         ELSE Raise("AttributeError",
                    "'property' object has no attribute '" \o attr \o "'")
    ELSE IF attr \in Methods(value.cls)
         THEN Return([type |-> "method", self |-> value, name |-> attr])
         ELSE Raise("AttributeError", "object has no attribute '" \o attr \o "'")

PackageCall(op, args, out) ==
    /\ call' = [op |-> op, self |-> None, args |-> args, out |-> out]
    /\ UNCHANGED <<_UNREAL_AVAILABLE, services_UNREAL_AVAILABLE, connect_calls,
                   instance_slots, heap, result>>

\* service = openclawue.<name>: a module attribute is read from the module's
\* namespace as it is; a property bound there is returned, not invoked.
package_getattr ==
    \E name \in ServiceClasses :
        PackageCall("getattr", [name |-> name], Return(PackageGlobal(name)))

\* service.<method>(...) on the value just read from openclawue.<name>, as the
\* example does: the method is looked up on that value.
package_service_method ==
    /\ HeldAttr
    /\ \E method \in Methods(call.args.name) :
           PackageCall("service_method",
                       [name |-> call.args.name, method |-> method],
                       GetAttr(call.out.value, method))

----------------------------------------------------------------------------
\* __init__.py: module-level functions

ModuleNames == {"unreal", "openclawue"}
ClassNames == {"unreal.Actor", "unreal.EditorAssetLibrary"}

CodeBlocks == {"print('Hello from OpenClawUE!')", "1/0", "raise SystemExit(3)"}

is_unreal_available ==
    PackageCall("is_unreal_available", <<>>, Return(_UNREAL_AVAILABLE))

\* Variant: discover_module without its availability test.
discover_module_value_unchecked(module_name) ==
    [module |-> module_name,
     classes |-> PyList(<<>>),
     functions |-> PyList(<<>>),
     constants |-> PyList(<<>>)]

discover_module_value(module_name) ==
    IF ~_UNREAL_AVAILABLE
    THEN [error |-> "Unreal Engine Python API not available"]
    ELSE [module |-> module_name,
          classes |-> PyList(<<>>),
          functions |-> PyList(<<>>),
          constants |-> PyList(<<>>)]

discover_module ==
    \E module_name \in ModuleNames :
        PackageCall("discover_module", [module_name |-> module_name],
                    Return(discover_module_value(module_name)))

discover_class_value(class_name) ==
    IF ~_UNREAL_AVAILABLE
    THEN [error |-> "Unreal Engine Python API not available"]
    ELSE [class |-> class_name,
          methods |-> PyList(<<>>),
          properties |-> PyList(<<>>),
          inheritance |-> PyList(<<>>)]

discover_class ==
    \E class_name \in ClassNames :
        PackageCall("discover_class", [class_name |-> class_name],
                    Return(discover_class_value(class_name)))

\* exec(code, exec_globals): what running the code block does.
Exec(code) ==
    CASE code = "1/0" -> Raise("ZeroDivisionError", "division by zero")
      [] code = "raise SystemExit(3)" -> Raise("SystemExit", "3")
      [] OTHER -> Return(None)

\* Variant: the except branch drops the exception text.
execute_python_failure_blank(e) ==
    [stdout |-> "", stderr |-> "", success |-> FALSE]

\* The envelope of the except branch: `"stderr": str(e)`.
execute_python_failure(e) ==
    [stdout |-> "", stderr |-> e.str, success |-> FALSE]

\* The try block of execute_python with its except Exception clause.
execute_python_try(code) ==
    LET ran == Exec(code)
    IN  IF ran.raised
        THEN IF IsException(ran.exc)
             THEN Return(execute_python_failure(ran.exc))
             ELSE ran
        ELSE Return([stdout |-> "Execution completed", stderr |-> "",
                     success |-> TRUE])

\* Variant: the early return is never taken.
ExecUnavailable_never == FALSE

\* `if not _UNREAL_AVAILABLE` at the head of execute_python
ExecUnavailable == ~_UNREAL_AVAILABLE

\* The envelope of the early return.
execute_python_unavailable ==
    [stdout |-> "",
     stderr |-> "Unreal Engine Python API not available",
     success |-> FALSE]

execute_python ==
    \E code \in CodeBlocks :
        /\ call' = [op |-> "execute_python", self |-> None,
                    args |-> [code |-> code],
                    out |-> IF ExecUnavailable
                            THEN Return(execute_python_unavailable)
                            ELSE execute_python_try(code),
                    executed |-> IF ExecUnavailable THEN <<>> ELSE <<code>>]
        /\ UNCHANGED <<_UNREAL_AVAILABLE, services_UNREAL_AVAILABLE, connect_calls,
                       instance_slots, heap, result>>

\* Variant: list_subsystems without its availability test.
list_subsystems_value_unchecked ==
    PyList(<<"LevelEditorSubsystem", "EditorAssetLibrary",
             "EditorLevelLibrary", "EditorUtilityLibrary">>)

list_subsystems_value ==
    IF ~_UNREAL_AVAILABLE
    THEN PyList(<<>>)
    ELSE PyList(<<"LevelEditorSubsystem", "EditorAssetLibrary",
                  "EditorLevelLibrary", "EditorUtilityLibrary">>)

list_subsystems ==
    PackageCall("list_subsystems", <<>>, Return(list_subsystems_value))

----------------------------------------------------------------------------

Init ==
    /\ _UNREAL_AVAILABLE \in BOOLEAN
    /\ services_UNREAL_AVAILABLE = _UNREAL_AVAILABLE
    /\ instance_slots = [a \in InstanceAttrs |-> None]
    /\ heap = [cls \in ServiceClasses |-> <<>>]
    /\ result = None
    /\ connect_calls = {}
    /\ call = [op |-> "import", self |-> None, args |-> <<>>,
               out |-> Return(None)]

Next ==
    \/ _get_service
    \/ property_fget
    \/ create_blueprint
    \/ add_variable
    \/ compile_blueprint
    \/ create_material
    \/ create_material_instance
    \/ create_widget_blueprint
    \/ add_widget_component
    \/ spawn_actor
    \/ get_all_actors
    \/ create_animation_sequence
    \/ create_niagara_system
    \/ create_input_action
    \/ search_assets
    \/ connect_to_openclaw
    \/ send_to_openclaw
    \/ create_dashboard
    \/ package_getattr
    \/ package_service_method
    \/ is_unreal_available
    \/ discover_module
    \/ discover_class
    \/ execute_python
    \/ list_subsystems

Spec == Init /\ [][Next]_vars

----------------------------------------------------------------------------
\* Properties

Returned == ~call.out.raised

DomainOps == UNION {Methods(name) : name \in DomainClasses}

OpenClawOps == Methods("OpenClawService")

LookupOps == {"_get_service", "fget"}

\* C1: Service registry identity.  A lookup of a domain whose cache slot is
\* empty, given a service class, constructs exactly one object of that class,
\* stores it in the domain's slot and returns it; a lookup of a domain whose
\* slot is filled returns the stored object and constructs nothing; a filled
\* slot is never replaced.
C1_RegistryIdentity ==
    [][\A name \in ServiceClasses :
          LET attr == instance_attr(name)
              cached == instance_slots[attr]
              lookup == /\ call'.op \in LookupOps
                        /\ call'.args.instance_attr = attr
          IN  /\ cached # None => instance_slots'[attr] = cached
              /\ (lookup /\ cached # None) =>
                     /\ heap' = heap
                     /\ call'.out = Return(cached)
              /\ (lookup /\ cached = None
                     /\ call'.args.service_class.type = "class") =>
                     /\ ~call'.out.raised
                     /\ call'.out.value \in Objects' \ Objects
                     /\ call'.out.value.cls = name
                     /\ NumObjects' = NumObjects + 1
                     /\ instance_slots'[attr] = call'.out.value
      ]_vars

\* C1 witness: a lookup of the Blueprint domain made after the cached object
\* was already used returns the one cached object.
C1_Witness ==
    /\ call.op = "_get_service"
    /\ call.args.instance_attr = "_blueprint_service"
    /\ result # None
    /\ Len(heap["BlueprintService"]) = 1
    /\ call.out = Return(Ref("BlueprintService", 1))
    /\ instance_slots["_blueprint_service"] = Ref("BlueprintService", 1)

\* C2: reading a service by its package attribute name yields the cached
\* service object of that domain, its operations can be called on the value
\* read, and the getter hands the registry the service class of the domain.
C2_PackageAttrIsService ==
    /\ call.op = "getattr" =>
           /\ Returned
           /\ call.out.value.type = "object"
           /\ call.out.value = instance_slots[instance_attr(call.args.name)]
    /\ call.op = "service_method" => Returned
    /\ call.op = "fget" => call.args.service_class.type = "class"

\* C3: with the host API unavailable every operation of the eight domain
\* services returns an envelope with success = FALSE and a non-empty error.
C3_UnavailableFails ==
    (call.op \in DomainOps /\ ~_UNREAL_AVAILABLE) =>
        /\ Returned
        /\ "success" \in DOMAIN call.out.value
        /\ call.out.value.success = FALSE
        /\ "error" \in DOMAIN call.out.value
        /\ call.out.value.error # ""

\* C3 witness: a domain operation was called with the host API unavailable
\* and returned the failure envelope.
C3_Witness ==
    /\ call.op = "spawn_actor"
    /\ ~_UNREAL_AVAILABLE
    /\ Returned
    /\ call.out.value.success = FALSE
    /\ call.out.value.error = "Unreal Engine Python API not available"

\* C4: send on an OpenClaw object fails with the not-connected error when no
\* connect was called on that object before it, and succeeds when one was.
C4_SendNeedsConnect ==
    call.op = "send_to_openclaw" =>
        /\ Returned
        /\ IF call.self \in connect_calls
           THEN call.out.value.success = TRUE
           ELSE /\ call.out.value.success = FALSE
                /\ call.out.value.error = "Not connected to OpenClaw"

\* C4 witness: a send made after a connect on the same object succeeded.
C4_Witness ==
    /\ call.op = "send_to_openclaw"
    /\ call.self \in connect_calls
    /\ Returned
    /\ call.out.value.success = TRUE
    /\ call.out.value.command = call.args.command

\* C5: an OpenClaw object starts disconnected; its flag changes only from
\* FALSE to TRUE and only in a connect on that object; send and
\* create_dashboard leave every object as it was.
C5_ConnectionMonotone ==
    [][/\ \A o \in Objects' \ Objects :
              o.cls = "OpenClawService" => ~heap'[o.cls][o.id]._connected
       /\ \A o \in Objects :
              o.cls = "OpenClawService" =>
                  /\ heap[o.cls][o.id]._connected =>
                         heap'[o.cls][o.id]._connected
                  /\ heap'[o.cls][o.id]._connected
                         # heap[o.cls][o.id]._connected =>
                         /\ call'.op = "connect_to_openclaw"
                         /\ call'.self = o
       /\ call'.op \in {"send_to_openclaw", "create_dashboard"} =>
              heap' = heap
      ]_vars

\* C5 witness: a connected object on which a later operation has run.
C5_Witness ==
    /\ call.op \in {"send_to_openclaw", "create_dashboard"}
    /\ call.self \in connect_calls
    /\ heap[call.self.cls][call.self.id]._connected

ServiceOps == DomainOps \cup OpenClawOps

EnvelopeOps ==
    ServiceOps \cup {"execute_python", "discover_module", "discover_class"}

Operations == EnvelopeOps \cup {"list_subsystems", "is_unreal_available"}

\* C6 as stated: every returned envelope carries a success flag, and an
\* error field whenever success = FALSE.
C6_EveryEnvelopeUniform ==
    (call.op \in EnvelopeOps /\ Returned) =>
        /\ "success" \in DOMAIN call.out.value
        /\ ~call.out.value.success => "error" \in DOMAIN call.out.value

\* C6 amended: every envelope returned by a domain-service or OpenClaw
\* operation carries a success flag, and an error field whenever
\* success = FALSE; the envelope of execute_python carries a success flag and
\* a stderr field and no error field; the mappings of discover_module and
\* discover_class carry no success flag, and an error field exactly when the
\* host API is absent.
C6_EnvelopeShapes ==
    /\ (call.op \in ServiceOps /\ Returned) =>
           /\ "success" \in DOMAIN call.out.value
           /\ ~call.out.value.success => "error" \in DOMAIN call.out.value
    /\ (call.op = "execute_python" /\ Returned) =>
           /\ "success" \in DOMAIN call.out.value
           /\ "stderr" \in DOMAIN call.out.value
           /\ "error" \notin DOMAIN call.out.value
    /\ (call.op \in {"discover_module", "discover_class"} /\ Returned) =>
           /\ "success" \notin DOMAIN call.out.value
           /\ "error" \in DOMAIN call.out.value <=> ~_UNREAL_AVAILABLE

\* C6 witness: a service operation returned a failure envelope that carries
\* its error field.
C6_Witness ==
    /\ call.op = "create_material"
    /\ Returned
    /\ call.out.value.success = FALSE
    /\ "error" \in DOMAIN call.out.value

\* C7: no operation lets a fault escape to its caller: whatever the operation,
\* its input and the availability of the host API, and whatever kind of fault
\* the code block passed to execute_python raises, the call returns.
C7_NoFaultEscapes == call.op \in Operations => Returned

C9_AbsentNeverExecutes ==
    (call.op = "execute_python" /\ ~_UNREAL_AVAILABLE) =>
        /\ call.out = Return([stdout |-> "",
                              stderr |-> "Unreal Engine Python API not available",
                              success |-> FALSE])
        /\ call.executed = <<>>

\* C9 witness: a raising code block passed with the host API absent.
C9_Witness ==
    /\ call.op = "execute_python"
    /\ ~_UNREAL_AVAILABLE
    /\ call.args.code = "raise SystemExit(3)"
    /\ Returned
    /\ call.out.value.success = FALSE

\* C10: a successful create_blueprint(name, parent_class, path) returns
\* asset_path = path + "/" + name whatever parent_class is; the caller's saved
\* result keeps that value, and an add_variable or compile_blueprint call
\* that is passed the saved asset_path works on exactly that path.
C10_AssetPathRoundTrip ==
    /\ (call.op = "create_blueprint" /\ Returned /\ call.out.value.success) =>
           /\ call.out.value.asset_path
                  = call.args.path \o "/" \o call.args.name
           /\ result = call.out.value
    /\ (result # None /\ result.success) =>
           \E name \in AssetNames, path \in AssetPaths :
               result.asset_path = path \o "/" \o name
    /\ (/\ call.op \in {"add_variable", "compile_blueprint"}
        /\ result # None /\ result.success
        /\ call.args.blueprint_path = result.asset_path) =>
           /\ Returned
           /\ call.out.value.success
           /\ call.out.value.message =
                  IF call.op = "add_variable"
                  THEN "Variable '" \o call.args.name \o "' added to "
                           \o result.asset_path
                  ELSE "Blueprint " \o result.asset_path
                           \o " compiled successfully"

\* C10 witness: compile_blueprint called with the asset_path a successful
\* create_blueprint returned.
C10_Witness ==
    /\ call.op = "compile_blueprint"
    /\ result # None
    /\ result.success
    /\ result.asset_path = "/Game/UI/BP_TestActor"
    /\ call.args.blueprint_path = result.asset_path
    /\ Returned
    /\ call.out.value.success

\* C11: connect is unconditional.  Whatever the url, whether the object was
\* disconnected or already connected before the call and whether the host
\* API is available or not, a connect leaves the object connected and
\* returns success = TRUE with connected = TRUE and the url it was given.
C11_ConnectUnconditional ==
    [][call'.op = "connect_to_openclaw" =>
           /\ ~call'.out.raised
           /\ call'.out.value.success = TRUE
           /\ call'.out.value.connected = TRUE
           /\ call'.out.value.url = call'.args.url
           /\ call'.self \in Objects
           /\ heap'[call'.self.cls][call'.self.id]._connected = TRUE
      ]_vars

\* C11 witness: a connect with the non-default url, made with the host API
\* unavailable on an object that stays connected, returned success.
C11_Witness ==
    /\ call.op = "connect_to_openclaw"
    /\ ~_UNREAL_AVAILABLE
    /\ call.args.url = "ws://gateway:9000"
    /\ Returned
    /\ call.out.value.success = TRUE
    /\ call.out.value.url = "ws://gateway:9000"
    /\ heap[call.self.cls][call.self.id]._connected

\* C12 as stated: with the host API absent discover_module and discover_class
\* return an error envelope, a mapping with success = FALSE and an error
\* field; otherwise they return the metadata shape carrying the given name
\* with every member list empty.
C12_DiscoverErrorEnvelope ==
    (call.op \in {"discover_module", "discover_class"}) =>
        /\ Returned
        /\ IF ~_UNREAL_AVAILABLE
           THEN /\ "success" \in DOMAIN call.out.value
                /\ call.out.value.success = FALSE
                /\ "error" \in DOMAIN call.out.value
           ELSE IF call.op = "discover_module"
           THEN call.out.value = [module |-> call.args.module_name,
                                  classes |-> PyList(<<>>),
                                  functions |-> PyList(<<>>),
                                  constants |-> PyList(<<>>)]
           ELSE call.out.value = [class |-> call.args.class_name,
                                  methods |-> PyList(<<>>),
                                  properties |-> PyList(<<>>),
                                  inheritance |-> PyList(<<>>)]

\* C12 amended: with the host API absent discover_module and discover_class
\* return a mapping whose only field is error, holding the not-available
\* message (the mapping has no success flag); otherwise they return the
\* metadata shape carrying the given name with every member list empty.
C12_DiscoverShapes ==
    (call.op \in {"discover_module", "discover_class"}) =>
        /\ Returned
        /\ IF ~_UNREAL_AVAILABLE
           THEN /\ DOMAIN call.out.value = {"error"}
                /\ call.out.value.error
                       = "Unreal Engine Python API not available"
           ELSE IF call.op = "discover_module"
           THEN /\ DOMAIN call.out.value
                       = {"module", "classes", "functions", "constants"}
                /\ call.out.value.module = call.args.module_name
                /\ call.out.value.classes.items = <<>>
                /\ call.out.value.functions.items = <<>>
                /\ call.out.value.constants.items = <<>>
           ELSE /\ DOMAIN call.out.value
                       = {"class", "methods", "properties", "inheritance"}
                /\ call.out.value.class = call.args.class_name
                /\ call.out.value.methods.items = <<>>
                /\ call.out.value.properties.items = <<>>
                /\ call.out.value.inheritance.items = <<>>

\* C12 witness: discover_module called with the host API absent returned the
\* error mapping.
C12_Witness ==
    /\ call.op = "discover_module"
    /\ ~_UNREAL_AVAILABLE
    /\ call.args.module_name = "unreal"
    /\ Returned
    /\ "error" \in DOMAIN call.out.value

\* C13: list_subsystems returns the empty list whenever the host API is
\* unavailable and the same fixed list of four names whenever it is
\* available, on every call and whatever operations ran before it.
C13_ListSubsystemsFixed ==
    call.op = "list_subsystems" =>
        /\ Returned
        /\ call.out.value.type = "list"
        /\ call.out.value.items =
               IF _UNREAL_AVAILABLE
               THEN <<"LevelEditorSubsystem", "EditorAssetLibrary",
                      "EditorLevelLibrary", "EditorUtilityLibrary">>
               ELSE <<>>

\* C13 witness: list_subsystems called with the host API available, after a
\* service object was created and connected, returned the four names.
C13_Witness ==
    /\ call.op = "list_subsystems"
    /\ _UNREAL_AVAILABLE
    /\ connect_calls # {}
    /\ Returned
    /\ Len(call.out.value.items) = 4

\* C14: with the host API present every operation of the eight domain
\* services returns success = TRUE for every argument value, and in both
\* availability states the success flag of a domain-service operation equals
\* the availability flag its service object captured when it was constructed.
C14_SuccessIsAvailability ==
    call.op \in DomainOps =>
        /\ Returned
        /\ "success" \in DOMAIN call.out.value
        /\ _UNREAL_AVAILABLE => call.out.value.success = TRUE
        /\ call.out.value.success
               = heap[call.self.cls][call.self.id]._unreal_available

\* C14 witness: spawn_actor called with the host API present and no rotation
\* returned success.
C14_Witness ==
    /\ call.op = "spawn_actor"
    /\ _UNREAL_AVAILABLE
    /\ call.args.rotation = [type |-> "NoneType"]
    /\ heap[call.self.cls][call.self.id]._unreal_available
    /\ Returned
    /\ call.out.value.success = TRUE

====
